---- MODULE Spec2Model ----
(***************************************************************************)
(* Vote / score / karma / notification flow of the whitepage backend.      *)
(*                                                                         *)
(* The four vote entry points are modelled:                                *)
(*   POST /api/posts/votes/:postId/:type        routes/posts.js  77-200    *)
(*   POST /api/posts/comments/:commentId/vote   routes/posts.js  1798-1882 *)
(*   POST /api/votes/:postId/:type              routes/votes.js  8-69      *)
(*   POST /api/votes/comments/:commentId/:type  routes/votes.js  75-132    *)
(* together with the handlers that share their documents:                  *)
(*   POST   /api/posts/:id/comments             routes/posts.js  1446-1514 *)
(*   POST   /api/posts/:postId/comments/:commentId/reply         1619-1685 *)
(*   DELETE /api/posts/:id                      routes/posts.js  1687-1733 *)
(*   DELETE /api/posts/comments/:commentId      routes/posts.js  1737-1795 *)
(*   GET    /api/posts, GET /api/posts/:id      routes/posts.js  250-1443  *)
(*   NotificationService                 utils/notificationUtils.js  6-85  *)
(*   PATCH /:id/read, POST /read-all, DELETE /:id, DELETE /                *)
(*                                       routes/notifications.js  105-163  *)
(*   POST   /api/auth/login                     routes/auth.js   125-220   *)
(*                                                                         *)
(* Every handler is an async function: it yields at each `await`, so a     *)
(* request is split at its awaits (findById, save, the writes after save). *)
(*                                                                         *)
(* Documents are Mongoose documents.  document.save() does not write the   *)
(* whole document back: it sends an update with the modified paths only.   *)
(*   - array.push(x) on a loaded array is sent as an atomic $push;         *)
(*   - assigning a different array to an array path is sent as a $set of   *)
(*     the whole array, guarded by the version key __v read at load time   *)
(*     (a mismatch makes save() throw a VersionError);                     *)
(*   - a scalar path is sent as $set when its value was changed;           *)
(*   - every array change increments __v.                                  *)
(* No schema of the repository disables the version key.                   *)
(***************************************************************************)
EXTENDS Integers, Sequences, FiniteSets, Bags, TLC

\* Total number of vote requests issued in one behaviour.
MaxRequests == 3

\* Total number of calls of NotificationService.createNotification.
MaxCalls == 3

\* Number of times the clock advances in one behaviour.
MaxTicks == 3

\* Total number of login requests in one behaviour.
MaxLogins == 6

Users == {"U1", "U2", "U3"}

\* Request handlers that can be in flight at the same time.
Slots == {1, 2}

PostId == "p1"
CommentId == "c1"

\* req.params.type / req.body.type: the two directions and any other token.
VoteTypes == {"upvote", "downvote"}
Tokens == VoteTypes \cup {"other"}

\* req.body.content of a comment or reply: missing or present.
Contents == {"", "text"}

\* The _id of the n-th Comment document created by a handler.
NewId == <<"c2", "c3", "c4", "c5", "c6">>

VARIABLES
    Post,           \* the stored Post document p1
    Comment,        \* the stored Comment document c1 (a comment on p1)
    karma,          \* User.karma of every user
    notifications,  \* the stored Notification documents (a bag)
    now,            \* Date.now() of the server, in milliseconds
    req,            \* per handler: position, parameters, in-memory document, response
    issued,         \* number of requests (or service calls) received so far
    comments,       \* the Comment documents created by the comment and reply handlers
    deleted,        \* the _ids of the documents that were deleted
    calls,          \* per caller of NotificationService.createNotification: its position
    account,        \* loginAttempts and lockUntil of the stored User document of U1
    login,          \* the handler of POST /api/auth/login: position, in-memory user, response
    failures        \* history: Date.now() of each failed password check since the
                    \* last successful login

vars == <<Post, Comment, karma, notifications, now, req, issued, comments, deleted, calls,
          account, login, failures>>

----------------------------------------------------------------------------
\* Helpers over arrays of user ids.

\* arr.some(id => id.toString() === userId)
Has(arr, u) == \E i \in 1..Len(arr) : arr[i] = u

\* arr.filter(id => id.toString() !== userId)
Filter(arr, u) == SelectSeq(arr, LAMBDA x : x # u)

\* The user ids an array holds.
Members(arr) == {arr[i] : i \in 1..Len(arr)}

----------------------------------------------------------------------------
\* Mongoose documents in memory.

Clean == [upvotes |-> "none", downvotes |-> "none", score |-> FALSE]

\* Model.findById: the in-memory copy of a stored document, nothing modified.
\* `score` is Post.votes or Comment.voteCount.
Load(stored, score) ==
    [upvotes |-> stored.upvotes, downvotes |-> stored.downvotes,
     score |-> score, version |-> stored.version, mod |-> Clean]

NoDoc == [upvotes |-> <<>>, downvotes |-> <<>>, score |-> 0, version |-> 0, mod |-> Clean]

\* doc.path = arr: the path is marked modified ($set) only when the value differs.
SetPath(d, f, arr) ==
    IF arr = d[f] THEN d ELSE [d EXCEPT ![f] = arr, !.mod[f] = "set"]

\* doc.path.push(u): an atomic $push, unless the path is already a whole $set.
PushPath(d, f, u) ==
    [d EXCEPT ![f] = Append(@, u),
              !.mod[f] = IF @ = "set" THEN "set" ELSE "push"]

\* doc.votes = n / doc.voteCount = n
SetScore(d, n) ==
    IF n = d.score THEN d ELSE [d EXCEPT !.score = n, !.mod.score = TRUE]

\* pre('save') hook of Post and Comment: the score is recomputed from the
\* in-memory arrays.
PreSave(d) == SetScore(d, Len(d.upvotes) - Len(d.downvotes))

\* save() with a whole-array $set carries {__v: version at load} in its filter.
VersionOk(stored, d) ==
    (d.mod.upvotes = "set" \/ d.mod.downvotes = "set") => stored.version = d.version

\* The array a successful save() leaves stored at path f.
SavedPath(stored, d, f, u) ==
    CASE d.mod[f] = "set"  -> d[f]
      [] d.mod[f] = "push" -> Append(stored[f], u)
      [] OTHER             -> stored[f]

SavedScore(old, d) == IF d.mod.score THEN d.score ELSE old

SavedVersion(stored, d) ==
    IF d.mod.upvotes # "none" \/ d.mod.downvotes # "none"
    THEN stored.version + 1 ELSE stored.version

\* Model.findById(id) returns null: no document with that _id is stored.
Absent(id) == id \in deleted

\* save() of a loaded document succeeds when its update matches a stored
\* document: the document still exists and the version filter, if any, holds.
SaveOk(id, stored, d) == ~Absent(id) /\ VersionOk(stored, d)

----------------------------------------------------------------------------
\* The in-memory vote transitions of the four handlers.

\* PostsPostMutate with a bug: a vote in a new direction keeps the old one.
PostsPostMutateKeepsOpposite(d, u, type) ==
    LET hasUpvoted == Has(d.upvotes, u)
        hasDownvoted == Has(d.downvotes, u)
        d1 == IF type = "upvote"
              THEN IF hasUpvoted
                   THEN SetPath(d, "upvotes", Filter(d.upvotes, u))
                   ELSE PushPath(d, "upvotes", u)
              ELSE IF type = "downvote"
              THEN IF hasDownvoted
                   THEN SetPath(d, "downvotes", Filter(d.downvotes, u))
                   ELSE PushPath(d, "downvotes", u)
              ELSE d
    IN SetScore(d1, Len(d1.upvotes) - Len(d1.downvotes))

\* routes/posts.js 116-149
PostsPostMutate(d, u, type) ==
    LET hasUpvoted == Has(d.upvotes, u)
        hasDownvoted == Has(d.downvotes, u)
        d1 == IF type = "upvote"
              THEN IF hasUpvoted
                   THEN SetPath(d, "upvotes", Filter(d.upvotes, u))
                   ELSE PushPath(IF hasDownvoted
                                 THEN SetPath(d, "downvotes", Filter(d.downvotes, u))
                                 ELSE d, "upvotes", u)
              ELSE IF type = "downvote"
              THEN IF hasDownvoted
                   THEN SetPath(d, "downvotes", Filter(d.downvotes, u))
                   ELSE PushPath(IF hasUpvoted
                                 THEN SetPath(d, "upvotes", Filter(d.upvotes, u))
                                 ELSE d, "downvotes", u)
              ELSE d
    IN SetScore(d1, Len(d1.upvotes) - Len(d1.downvotes))

\* routes/votes.js 25-48 and 92-115: the same code for posts and comments.
VotesToggle(d, u, type) ==
    LET hasUpvoted == Has(d.upvotes, u)
        hasDownvoted == Has(d.downvotes, u)
    IN IF (type = "upvote" /\ hasUpvoted) \/ (type = "downvote" /\ hasDownvoted)
       THEN SetPath(SetPath(d, "upvotes", Filter(d.upvotes, u)),
                    "downvotes", Filter(d.downvotes, u))
       ELSE LET d1 == IF type = "upvote" /\ hasDownvoted
                      THEN SetPath(d, "downvotes", Filter(d.downvotes, u))
                      ELSE IF type = "downvote" /\ hasUpvoted
                      THEN SetPath(d, "upvotes", Filter(d.upvotes, u))
                      ELSE d
            IN IF type = "upvote"
               THEN PushPath(d1, "upvotes", u)
               ELSE PushPath(d1, "downvotes", u)

\* routes/votes.js 50-52
VotesPostMutate(d, u, type) ==
    LET d1 == VotesToggle(d, u, type)
    IN SetScore(d1, Len(d1.upvotes) - Len(d1.downvotes))

\* PostsCommentClear with a bug: the upvote of the actor is not dropped.
PostsCommentClearDownOnly(d, u) ==
    SetPath(d, "downvotes", Filter(d.downvotes, u))

\* routes/posts.js 1826-1832: both memberships of the actor are dropped first.
PostsCommentClear(d, u) ==
    SetPath(SetPath(d, "upvotes", Filter(d.upvotes, u)),
            "downvotes", Filter(d.downvotes, u))

\* routes/posts.js 1834-1863 for a valid direction.
PostsCommentMutate(d, u, type) ==
    LET d0 == PostsCommentClear(d, u)
        d1 == IF type = "upvote" THEN PushPath(d0, "upvotes", u)
                                 ELSE PushPath(d0, "downvotes", u)
    IN SetScore(d1, Len(d1.upvotes) - Len(d1.downvotes))

----------------------------------------------------------------------------
\* Notifications.

\* A Notification document: the fields the unique index covers, the
\* createdAt stamp of `timestamps: true` and isRead with its default.
Notif(user, type, sender, post, comment) ==
    [user |-> user, type |-> type, sender |-> sender, post |-> post, comment |-> comment,
     createdAt |-> now, isRead |-> FALSE]

\* 24 hours in milliseconds.
Day == 24 * 60 * 60 * 1000

\* The key of the unique compound index {user, type, sender, post, comment}.
KeyOf(n) == <<n.user, n.type, n.sender, n.post, n.comment>>

\* The stored documents that carry the index key of n.
SameKey(n) == {m \in BagToSet(notifications) : KeyOf(m) = KeyOf(n)}

\* The enum of the `type` path; a document with another type fails validation.
NotificationTypes ==
    {"comment_reply", "post_reply", "upvote", "downvote", "mention", "new_follower"}

\* Without the unique index no insert is refused.
NoUniqueIndex(n) == FALSE

\* Notification.create throws (E11000) when the unique compound index
\* already holds the key of the new document.
Duplicate(n) == SameKey(n) # {}

\* The collection after the insert of n.
Insert(n) == notifications (+) SetToBag({n})

\* Notification.create(n): the document is validated against the schema and
\* inserted unless the unique index refuses it.
Created(n) == n.type \in NotificationTypes /\ ~Duplicate(n)

\* A findOne that never matches.
NoneRecent(n) == {}

\* The stored documents the findOne of createNotification matches: the same
\* five fields and createdAt > Date.now() - 24h.
Recent(n) == {m \in SameKey(n) : m.createdAt > now - Day}

----------------------------------------------------------------------------
\* NotificationService.createNotification (utils/notificationUtils.js 6-37).

\* Overlapping callers of the service.
Callers == {1, 2}

\* The notifications the callers ask for: votes on post p1 of U1.
Senders == {"U2", "U3"}

NoCall == [pc |-> "idle", user |-> "U1", type |-> "upvote", sender |-> "U2",
           comment |-> "none", result |-> "none", at |-> 0]

\* The clock advances in steps of half a day.
HalfDay == 12 * 60 * 60 * 1000

----------------------------------------------------------------------------
\* The account of U1 (models/User.js).

\* lockUntil is undefined.
Unset == -1

\* The lock lasts 15 minutes, in milliseconds.
LockTime == 15 * 60 * 1000

\* The number of failed attempts at which incrementLoginAttempts locks.
AttemptLimit == 5

\* The schema defaults: loginAttempts 0, no lockUntil.
NewAccount == [loginAttempts |-> 0, lockUntil |-> Unset]

\* req.body.password: missing, the password of the account, another one.
Passwords == {"", "right", "wrong"}

\* userSchema.methods.isLocked: lockUntil && lockUntil > Date.now()
IsLocked(user) == user.lockUntil # Unset /\ user.lockUntil > now

\* userSchema.methods.incrementLoginAttempts, in memory.
IncrementLoginAttempts(user) ==
    LET n == user.loginAttempts + 1
    IN [loginAttempts |-> n,
        lockUntil |-> IF n >= AttemptLimit THEN now + LockTime ELSE user.lockUntil]

\* userSchema.methods.resetLoginAttempts, in memory.
ResetLoginAttempts(user) == [loginAttempts |-> 0, lockUntil |-> Unset]

NoLogin == [pc |-> "idle", password |-> "", user |-> NewAccount, status |-> 0,
            compared |-> FALSE, served |-> 0]

----------------------------------------------------------------------------
\* Request slots.

\* The viewer of a read: a user with a valid token, or nobody.
Viewers == Users \cup {"anonymous"}

\* The body of an error response.
Failure == [success |-> FALSE]

Idle == [pc |-> "idle", route |-> "none", actor |-> "U1", type |-> "other",
         doc |-> NoDoc, hasUpvoted |-> FALSE, hasDownvoted |-> FALSE, status |-> 0,
         content |-> "", count |-> 0, made |-> "none", target |-> "none", replies |-> 0,
         named |-> <<>>,
         reads |-> {}, writes |-> {}, body |-> Failure, idValid |-> TRUE]

Free(s) == req[s].pc \in {"idle", "done"}

\* Handlers are anonymous: a new request is taken by the first free one.
Accepts(s) == Free(s) /\ \A t \in Slots : t < s => ~Free(t)

\* Handlers access the collections "content", "user" and "notification".

\* A new request enters a slot.
Accept(route, u, type) ==
    [Idle EXCEPT !.route = route, !.actor = u, !.type = type]

\* The handler in slot s continues as r; the responses of the handlers that
\* have ended are gone once the next request is accepted.
Enter(s, r) ==
    [t \in Slots |-> IF t = s THEN r
                     ELSE IF req[t].pc = "done" THEN Idle ELSE req[t]]

\* res.status(code).json(...): the handler ends.
Respond(r, code) == [r EXCEPT !.pc = "done", !.status = code, !.doc = NoDoc]

\* The handler has queried a collection / has changed a collection.
Read(r, store) == [r EXCEPT !.reads = @ \cup {store}]
Wrote(r, store) == [r EXCEPT !.writes = @ \cup {store}]

\* upvotes.some(...) ? 'upvote' : downvotes.some(...) ? 'downvote' : null
UserVote(upvotes, downvotes, viewer) ==
    IF Has(upvotes, viewer) THEN "upvote"
    ELSE IF Has(downvotes, viewer) THEN "downvote"
    ELSE "null"

\* The fields of the success response of each vote route.
PostsPostFields ==
    {"votes", "upvoteCount", "downvoteCount", "hasUpvoted", "hasDownvoted", "userVote"}
VotesPostFields == {"votes", "hasUpvoted", "hasDownvoted"}
VotesCommentFields == {"upvotes", "downvotes", "voteCount"}
PostsCommentFields == {"upvotes", "downvotes", "voteCount", "hasUpvoted", "hasDownvoted"}

\* A response that reports no vote at all.
BodyOfNoVotes(d, u, fields) ==
    LET full == [success |-> TRUE, votes |-> 0, voteCount |-> 0,
                 upvoteCount |-> 0, upvotes |-> 0, downvoteCount |-> 0, downvotes |-> 0,
                 hasUpvoted |-> FALSE, hasDownvoted |-> FALSE, userVote |-> "null"]
    IN [f \in fields \cup {"success"} |-> full[f]]

\* The success response of a vote: every field is computed from the
\* in-memory document d of the handler of actor u.
Body(d, u, fields) ==
    LET full == [success |-> TRUE,
                 votes |-> d.score, voteCount |-> d.score,
                 upvoteCount |-> Len(d.upvotes), upvotes |-> Len(d.upvotes),
                 downvoteCount |-> Len(d.downvotes), downvotes |-> Len(d.downvotes),
                 hasUpvoted |-> Has(d.upvotes, u),
                 hasDownvoted |-> Has(d.downvotes, u),
                 userVote |-> UserVote(d.upvotes, d.downvotes, u)]
    IN [f \in fields \cup {"success"} |-> full[f]]

\* res.json({success: true, ...}) of a vote handler.
Respond200(r, fields) ==
    [Respond(r, 200) EXCEPT !.body = Body(PreSave(r.doc), r.actor, fields)]

Init ==
    /\ Post = [author |-> "U1", upvotes |-> <<>>, downvotes |-> <<>>, votes |-> 0, version |-> 0,
               commentCount |-> 1]
    /\ Comment = [author |-> "U1", post |-> PostId, upvotes |-> <<>>, downvotes |-> <<>>,
                  voteCount |-> 0, version |-> 0, replies |-> <<>>]
    /\ karma = [u \in Users |-> 0]
    /\ notifications = EmptyBag
    /\ now = 0
    /\ req = [s \in Slots |-> Idle]
    /\ issued = 0
    /\ comments = <<>>
    /\ deleted = {}
    /\ calls = [c \in Callers |-> NoCall]
    /\ account = NewAccount
    /\ login = NoLogin
    /\ failures = <<>>

----------------------------------------------------------------------------
\* POST /api/posts/votes/:postId/:type (routes/posts.js)

\* Lines 79-153: parameter validation, Post.findById, the self-vote check and
\* the in-memory mutation, up to the await of post.save().
PostsVotePost(s, u, type) ==
    /\ Accepts(s)
    /\ issued < MaxRequests
    /\ issued' = issued + 1
    /\ LET r == Accept("posts.post", u, type)
           found == Read(r, "content")
       IN req' = Enter(s,
                    IF type \notin VoteTypes THEN Respond(r, 400)
                    ELSE IF Absent(PostId) THEN Respond(found, 404)
                    ELSE IF Post.author = u THEN Respond(found, 400)
                    ELSE [found EXCEPT
                             !.pc = "save",
                             !.hasUpvoted = Has(Post.upvotes, u),
                             !.hasDownvoted = Has(Post.downvotes, u),
                             !.doc = PostsPostMutate(Load(Post, Post.votes), u, type)])
    /\ UNCHANGED <<Post, Comment, karma, notifications, now, comments, deleted, calls,
                 account, login, failures>>

\* Line 156: await post.save(); an error lands in the catch block (500).
PostsVotePostSave(s) ==
    /\ req[s].pc = "save"
    /\ req[s].route = "posts.post"
    /\ LET d == PreSave(req[s].doc)
           u == req[s].actor
       IN IF SaveOk(PostId, Post, d)
          THEN /\ Post' = [Post EXCEPT !.upvotes = SavedPath(Post, d, "upvotes", u),
                                       !.downvotes = SavedPath(Post, d, "downvotes", u),
                                       !.votes = SavedScore(Post.votes, d),
                                       !.version = SavedVersion(Post, d)]
               /\ req' = [req EXCEPT ![s] = [Wrote(@, "content") EXCEPT !.pc = "after"]]
          ELSE /\ Post' = Post
               /\ req' = [req EXCEPT ![s] = Respond(@, 500)]
    /\ UNCHANGED <<Comment, karma, notifications, now, issued, comments, deleted, calls,
                 account, login, failures>>

\* Lines 162-167: the $inc applied to the author's karma.
KarmaInc(type, hasUpvoted, hasDownvoted) ==
    IF type = "upvote" /\ ~hasUpvoted THEN 1
    ELSE IF type = "downvote" /\ ~hasDownvoted THEN -1
    ELSE 0

\* Line 170: the condition under which a vote notification is created.
NotifiesVote(type, hasUpvoted, hasDownvoted) ==
    (type = "upvote" /\ ~hasUpvoted) \/ (type = "downvote" /\ ~hasDownvoted)

\* Lines 159-198: the second Post.findById, the karma update,
\* Notification.create and the response, which is built from the in-memory
\* document that was saved.
PostsVotePostAfter(s) ==
    /\ req[s].pc = "after"
    /\ req[s].route = "posts.post"
    /\ LET inc == KarmaInc(req[s].type, req[s].hasUpvoted, req[s].hasDownvoted)
           r == IF inc # 0 THEN Wrote(Read(req[s], "user"), "user")
                           ELSE Read(req[s], "user")
           n == Notif(Post.author, r.type, r.actor, PostId, "none")
       IN /\ karma' = [karma EXCEPT ![Post.author] = @ + inc]
          /\ IF NotifiesVote(r.type, r.hasUpvoted, r.hasDownvoted)
             THEN IF Created(n)
                  THEN /\ notifications' = Insert(n)
                       /\ req' = [req EXCEPT ![s] =
                                     Respond200(Wrote(r, "notification"), PostsPostFields)]
                  ELSE /\ notifications' = notifications
                       /\ req' = [req EXCEPT ![s] = Respond(r, 500)]
             ELSE /\ notifications' = notifications
                  /\ req' = [req EXCEPT ![s] = Respond200(r, PostsPostFields)]
    /\ UNCHANGED <<Post, Comment, now, issued, comments, deleted, calls,
                 account, login, failures>>

----------------------------------------------------------------------------
\* POST /api/votes/:postId/:type (routes/votes.js)

\* Lines 10-52: Post.findById and the in-memory mutation.
VotesVotePost(s, u, type) ==
    /\ Accepts(s)
    /\ issued < MaxRequests
    /\ issued' = issued + 1
    /\ LET found == Read(Accept("votes.post", u, type), "content")
       IN req' = Enter(s,
                    IF Absent(PostId) THEN Respond(found, 404)
                    ELSE [found EXCEPT
                             !.pc = "save",
                             !.hasUpvoted = Has(Post.upvotes, u),
                             !.hasDownvoted = Has(Post.downvotes, u),
                             !.doc = VotesPostMutate(Load(Post, Post.votes), u, type)])
    /\ UNCHANGED <<Post, Comment, karma, notifications, now, comments, deleted, calls,
                 account, login, failures>>

\* Lines 54-68: await post.save() and the response.
VotesVotePostSave(s) ==
    /\ req[s].pc = "save"
    /\ req[s].route = "votes.post"
    /\ LET d == PreSave(req[s].doc)
           u == req[s].actor
       IN IF SaveOk(PostId, Post, d)
          THEN /\ Post' = [Post EXCEPT !.upvotes = SavedPath(Post, d, "upvotes", u),
                                       !.downvotes = SavedPath(Post, d, "downvotes", u),
                                       !.votes = SavedScore(Post.votes, d),
                                       !.version = SavedVersion(Post, d)]
               /\ req' = [req EXCEPT ![s] = Respond200(Wrote(@, "content"), VotesPostFields)]
          ELSE /\ Post' = Post
               /\ req' = [req EXCEPT ![s] = Respond(@, 500)]
    /\ UNCHANGED <<Comment, karma, notifications, now, issued, comments, deleted, calls,
                 account, login, failures>>

----------------------------------------------------------------------------
\* POST /api/votes/comments/:commentId/:type (routes/votes.js)

\* Lines 77-115: Comment.findById and the in-memory mutation.
VotesVoteComment(s, u, type) ==
    /\ Accepts(s)
    /\ issued < MaxRequests
    /\ issued' = issued + 1
    /\ LET found == Read(Accept("votes.comment", u, type), "content")
       IN req' = Enter(s,
                    IF Absent(CommentId) THEN Respond(found, 404)
                    ELSE [found EXCEPT
                             !.pc = "save",
                             !.hasUpvoted = Has(Comment.upvotes, u),
                             !.hasDownvoted = Has(Comment.downvotes, u),
                             !.doc = VotesToggle(Load(Comment, Comment.voteCount), u, type)])
    /\ UNCHANGED <<Post, Comment, karma, notifications, now, comments, deleted, calls,
                 account, login, failures>>

\* Lines 117-131: await comment.save() and the response.
VotesVoteCommentSave(s) ==
    /\ req[s].pc = "save"
    /\ req[s].route = "votes.comment"
    /\ LET d == PreSave(req[s].doc)
           u == req[s].actor
       IN IF SaveOk(CommentId, Comment, d)
          THEN /\ Comment' = [Comment EXCEPT
                                 !.upvotes = SavedPath(Comment, d, "upvotes", u),
                                 !.downvotes = SavedPath(Comment, d, "downvotes", u),
                                 !.voteCount = SavedScore(Comment.voteCount, d),
                                 !.version = SavedVersion(Comment, d)]
               /\ req' = [req EXCEPT ![s] =
                             Respond200(Wrote(@, "content"), VotesCommentFields)]
          ELSE /\ Comment' = Comment
               /\ req' = [req EXCEPT ![s] = Respond(@, 500)]
    /\ UNCHANGED <<Post, karma, notifications, now, issued, comments, deleted, calls,
                 account, login, failures>>

----------------------------------------------------------------------------
\* POST /api/posts/comments/:commentId/vote (routes/posts.js)

\* A notification for a vote with any token.
NotifiesCommentVoteAnyType(type, author, u) == author # u

\* Lines 1835-1838: an upvote of another user's comment is notified.
NotifiesCommentVote(type, author, u) == type = "upvote" /\ author # u

\* Lines 1800-1863: Comment.findById, the in-memory mutation and, for an
\* upvote, Notification.create, which is awaited before comment.save().
PostsVoteComment(s, u, type) ==
    /\ Accepts(s)
    /\ issued < MaxRequests
    /\ issued' = issued + 1
    /\ LET r == [Read(Accept("posts.comment", u, type), "content") EXCEPT
                    !.hasUpvoted = Has(Comment.upvotes, u),
                    !.hasDownvoted = Has(Comment.downvotes, u)]
           d == Load(Comment, Comment.voteCount)
           n == Notif(Comment.author, "upvote", u, Comment.post, CommentId)
           ready(q) == [q EXCEPT !.pc = "save", !.doc = PostsCommentMutate(d, u, type)]
           answer(q) == IF type \in VoteTypes THEN ready(q) ELSE Respond(q, 400)
       IN IF Absent(CommentId)
          THEN /\ notifications' = notifications
               /\ req' = Enter(s, Respond([r EXCEPT !.hasUpvoted = FALSE,
                                                    !.hasDownvoted = FALSE], 404))
          ELSE IF NotifiesCommentVote(type, Comment.author, u)
          THEN IF Created(n)
               THEN /\ notifications' = Insert(n)
                    /\ req' = Enter(s, answer(Wrote(r, "notification")))
               ELSE /\ notifications' = notifications
                    /\ req' = Enter(s, Respond(r, 500))
          ELSE /\ notifications' = notifications
               /\ req' = Enter(s, answer(r))
    /\ UNCHANGED <<Post, Comment, karma, now, comments, deleted, calls,
                 account, login, failures>>

\* Lines 1865-1881: await comment.save() and the response.
PostsVoteCommentSave(s) ==
    /\ req[s].pc = "save"
    /\ req[s].route = "posts.comment"
    /\ LET d == PreSave(req[s].doc)
           u == req[s].actor
       IN IF SaveOk(CommentId, Comment, d)
          THEN /\ Comment' = [Comment EXCEPT
                                 !.upvotes = SavedPath(Comment, d, "upvotes", u),
                                 !.downvotes = SavedPath(Comment, d, "downvotes", u),
                                 !.voteCount = SavedScore(Comment.voteCount, d),
                                 !.version = SavedVersion(Comment, d)]
               /\ req' = [req EXCEPT ![s] =
                             Respond200(Wrote(@, "content"), PostsCommentFields)]
          ELSE /\ Comment' = Comment
               /\ req' = [req EXCEPT ![s] = Respond(@, 500)]
    /\ UNCHANGED <<Post, karma, notifications, now, issued, comments, deleted, calls,
                 account, login, failures>>

----------------------------------------------------------------------------
\* Requests are handled concurrently: a free handler accepts a request and
\* any handler in flight takes its next step.  The concurrent requests carry
\* a valid direction: another token is rejected without a store access or,
\* in routes/votes.js, takes the downvote branch.
Next ==
    \/ \E s \in Slots, u \in Users, type \in VoteTypes : PostsVotePost(s, u, type)
    \/ \E s \in Slots : PostsVotePostSave(s)
    \/ \E s \in Slots : PostsVotePostAfter(s)
    \/ \E s \in Slots, u \in Users, type \in VoteTypes : VotesVotePost(s, u, type)
    \/ \E s \in Slots : VotesVotePostSave(s)
    \/ \E s \in Slots, u \in Users, type \in VoteTypes : VotesVoteComment(s, u, type)
    \/ \E s \in Slots : VotesVoteCommentSave(s)
    \/ \E s \in Slots, u \in Users, type \in VoteTypes : PostsVoteComment(s, u, type)
    \/ \E s \in Slots : PostsVoteCommentSave(s)

Spec == Init /\ [][Next]_vars

\* Requests are handled one after the other: a request is accepted only when
\* no other request is in flight.
Quiet == \A s \in Slots : Free(s)

SeqNext ==
    \/ \E u \in Users, type \in Tokens : Quiet /\ PostsVotePost(1, u, type)
    \/ PostsVotePostSave(1)
    \/ PostsVotePostAfter(1)
    \/ \E u \in Users, type \in Tokens : Quiet /\ VotesVotePost(1, u, type)
    \/ VotesVotePostSave(1)
    \/ \E u \in Users, type \in Tokens : Quiet /\ VotesVoteComment(1, u, type)
    \/ VotesVoteCommentSave(1)
    \/ \E u \in Users, type \in Tokens : Quiet /\ PostsVoteComment(1, u, type)
    \/ PostsVoteCommentSave(1)

SeqSpec == Init /\ [][SeqNext]_vars

\* The post votes of routes/posts.js, the only votes that update karma, one
\* request at a time.
KarmaNext ==
    \/ \E u \in Users, type \in Tokens : Quiet /\ PostsVotePost(1, u, type)
    \/ PostsVotePostSave(1)
    \/ PostsVotePostAfter(1)

KarmaSpec == Init /\ [][KarmaNext]_vars

----------------------------------------------------------------------------
\* Vote requests whose :postId / :commentId is no ObjectId.

\* A request of actor u with token type and a malformed id.
Malformed(route, u, type) == [Accept(route, u, type) EXCEPT !.idValid = FALSE]

\* routes/posts.js 79-87: mongoose.Types.ObjectId.isValid fails, 400.
PostsVotePostInvalidId(s, u, type) ==
    /\ Accepts(s)
    /\ issued < MaxRequests
    /\ issued' = issued + 1
    /\ req' = Enter(s, Respond(Malformed("posts.post", u, type), 400))
    /\ UNCHANGED <<Post, Comment, karma, notifications, now, comments, deleted, calls,
                 account, login, failures>>

\* routes/posts.js 1800-1810: mongoose.Types.ObjectId.isValid fails, 400.
PostsVoteCommentInvalidId(s, u, type) ==
    /\ Accepts(s)
    /\ issued < MaxRequests
    /\ issued' = issued + 1
    /\ req' = Enter(s, Respond(Malformed("posts.comment", u, type), 400))
    /\ UNCHANGED <<Post, Comment, karma, notifications, now, comments, deleted, calls,
                 account, login, failures>>

\* routes/votes.js 10-12 and 62-68: there is no id check; Post.findById
\* throws a CastError while the filter is cast, before any query is sent, and
\* the catch block answers 500.
VotesVotePostInvalidId(s, u, type) ==
    /\ Accepts(s)
    /\ issued < MaxRequests
    /\ issued' = issued + 1
    /\ req' = Enter(s, Respond(Malformed("votes.post", u, type), 500))
    /\ UNCHANGED <<Post, Comment, karma, notifications, now, comments, deleted, calls,
                 account, login, failures>>

\* routes/votes.js 77-79 and 125-131: the same for Comment.findById.
VotesVoteCommentInvalidId(s, u, type) ==
    /\ Accepts(s)
    /\ issued < MaxRequests
    /\ issued' = issued + 1
    /\ req' = Enter(s, Respond(Malformed("votes.comment", u, type), 500))
    /\ UNCHANGED <<Post, Comment, karma, notifications, now, comments, deleted, calls,
                 account, login, failures>>

\* Votes with any token and any id, one request at a time.
AnyIdNext ==
    \/ SeqNext
    \/ \E u \in Users, type \in Tokens : Quiet /\ PostsVotePostInvalidId(1, u, type)
    \/ \E u \in Users, type \in Tokens : Quiet /\ PostsVoteCommentInvalidId(1, u, type)
    \/ \E u \in Users, type \in Tokens : Quiet /\ VotesVotePostInvalidId(1, u, type)
    \/ \E u \in Users, type \in Tokens : Quiet /\ VotesVoteCommentInvalidId(1, u, type)

AnyIdSpec == Init /\ [][AnyIdNext]_vars

----------------------------------------------------------------------------
\* DELETE /api/posts/:id (routes/posts.js 1687-1733)

\* Lines 1689-1714: Post.findById and the author check.
DeletePost(s, u) ==
    /\ Accepts(s)
    /\ issued < MaxRequests
    /\ issued' = issued + 1
    /\ LET found == Read(Accept("posts.delete", u, "other"), "content")
       IN req' = Enter(s, IF Absent(PostId) THEN Respond(found, 404)
                          ELSE IF Post.author # u THEN Respond(found, 403)
                          ELSE [found EXCEPT !.pc = "comments"])
    /\ UNCHANGED <<Post, Comment, karma, notifications, now, comments, deleted, calls,
                 account, login, failures>>

\* Line 1717: Comment.deleteMany({ post: id }).
DeletePostComments(s) ==
    /\ req[s].pc = "comments"
    /\ req[s].route = "posts.delete"
    /\ deleted' = deleted \cup {CommentId} \cup {NewId[i] : i \in 1..Len(comments)}
    /\ req' = [req EXCEPT ![s] = [Wrote(@, "content") EXCEPT !.pc = "post"]]
    /\ UNCHANGED <<Post, Comment, karma, notifications, now, issued, comments, calls,
                 account, login, failures>>

\* Lines 1720-1725: Post.findByIdAndDelete(id) and the response.
DeletePostDoc(s) ==
    /\ req[s].pc = "post"
    /\ req[s].route = "posts.delete"
    /\ deleted' = deleted \cup {PostId}
    /\ req' = [req EXCEPT ![s] = Respond(@, 200)]
    /\ UNCHANGED <<Post, Comment, karma, notifications, now, issued, comments, calls,
                 account, login, failures>>

\* Votes with a valid direction and deletions of the post, handled
\* concurrently.
DelNext ==
    \/ Next
    \/ \E s \in Slots, u \in Users : DeletePost(s, u)
    \/ \E s \in Slots : DeletePostComments(s)
    \/ \E s \in Slots : DeletePostDoc(s)

DelSpec == Init /\ [][DelNext]_vars

----------------------------------------------------------------------------
\* Reads of post p1 (routes/posts.js).

\* The userVote of a read: null without a verified token (lines 372-389 and
\* 1427-1443).
Projection(upvotes, downvotes, viewer) ==
    [success |-> TRUE,
     userVote |-> IF viewer \in Users THEN UserVote(upvotes, downvotes, viewer)
                                      ELSE "null"]

\* GET /api/posts (lines 250-400): Post.find(...).lean() and the userVote of
\* every post of the page, here of p1.
GetPosts(s, viewer) ==
    /\ Accepts(s)
    /\ issued < MaxRequests
    /\ issued' = issued + 1
    /\ ~Absent(PostId)
    /\ LET r == Read(Read(Accept("posts.list", viewer, "other"), "content"), "user")
       IN req' = Enter(s, [Respond(r, 200) EXCEPT
                              !.body = Projection(Post.upvotes, Post.downvotes, viewer)])
    /\ UNCHANGED <<Post, Comment, karma, notifications, now, comments, deleted, calls,
                 account, login, failures>>

\* GET /api/posts/:id (lines 1386-1412): Post.findById, then
\* handlePostResponse sets viewCount, which is no path of the schema, on the
\* document and awaits post.save().
GetPost(s, viewer) ==
    /\ Accepts(s)
    /\ issued < MaxRequests
    /\ issued' = issued + 1
    /\ LET found == Read(Read(Accept("posts.get", viewer, "other"), "content"), "user")
       IN req' = Enter(s, IF Absent(PostId) THEN Respond(found, 404)
                          ELSE [found EXCEPT !.pc = "view",
                                             !.doc = Load(Post, Post.votes)])
    /\ UNCHANGED <<Post, Comment, karma, notifications, now, comments, deleted, calls,
                 account, login, failures>>

\* Lines 1412-1443: post.save() writes what the pre('save') hook changed, and
\* the response carries the userVote of the in-memory document.  When the
\* post is gone a non-empty update matches nothing: save() throws or passes
\* silently, depending on the Mongoose release.
GetPostSave(s) ==
    /\ req[s].pc = "view"
    /\ req[s].route = "posts.get"
    /\ LET d == PreSave(req[s].doc)
           r == IF d.mod.score THEN Wrote(req[s], "content") ELSE req[s]
           answer == [Respond(r, 200) EXCEPT
                         !.body = Projection(d.upvotes, d.downvotes, r.actor)]
       IN IF Absent(PostId) /\ d.mod.score
          THEN /\ Post' = Post
               /\ \/ req' = [req EXCEPT ![s] = Respond(req[s], 500)]
                  \/ req' = [req EXCEPT ![s] = answer]
          ELSE /\ Post' = [Post EXCEPT !.votes = SavedScore(Post.votes, d)]
               /\ req' = [req EXCEPT ![s] = answer]
    /\ UNCHANGED <<Comment, karma, notifications, now, issued, comments, deleted, calls,
                 account, login, failures>>

\* Votes with any token and reads, one request at a time.
ReadNext ==
    \/ SeqNext
    \/ \E viewer \in Viewers : Quiet /\ GetPosts(1, viewer)
    \/ \E viewer \in Viewers : Quiet /\ GetPost(1, viewer)
    \/ GetPostSave(1)

ReadSpec == Init /\ [][ReadNext]_vars

----------------------------------------------------------------------------
\* Comments and replies.

\* A reply notification that is sent to the commenter as well.
NotifiesReplyAlways(author, u) == TRUE

\* Lines 1489 and 1661: the author of the post or of the parent comment is
\* notified unless the commenter is that author.
NotifiesReply(author, u) == author # u

----------------------------------------------------------------------------
\* POST /api/posts/:id/comments (routes/posts.js 1446-1514)

\* Lines 1448-1466: the content check and Post.findById.
AddComment(s, u, content) ==
    /\ Accepts(s)
    /\ issued < MaxRequests
    /\ issued' = issued + 1
    /\ LET r == [Accept("posts.addComment", u, "other") EXCEPT !.content = content]
           found == Read(r, "content")
       IN req' = Enter(s, IF content = "" THEN Respond(r, 400)
                          ELSE IF Absent(PostId) THEN Respond(found, 404)
                          ELSE [found EXCEPT !.pc = "comment", !.count = Post.commentCount,
                                             !.doc = Load(Post, Post.votes)])
    /\ UNCHANGED <<Post, Comment, karma, notifications, now, comments, calls, deleted,
                 account, login, failures>>

\* Lines 1468-1479: the new Comment document is saved.
AddCommentSave(s) ==
    /\ req[s].pc = "comment"
    /\ req[s].route = "posts.addComment"
    /\ Len(comments) < Len(NewId)
    /\ comments' = Append(comments, [author |-> req[s].actor, parent |-> "none", replies |-> <<>>])
    /\ req' = [req EXCEPT ![s] = [Wrote(@, "content") EXCEPT
                                     !.pc = "count", !.made = NewId[Len(comments) + 1]]]
    /\ UNCHANGED <<Post, Comment, karma, notifications, now, issued, calls, deleted,
                 account, login, failures>>

\* Lines 1481-1483: post.commentCount = (post.commentCount || 0) + 1 on the
\* document loaded at line 1459, then post.save(), whose pre('save') hook
\* recomputes votes from the loaded arrays.  When the post is gone
\* the update of this scalar matches nothing: save() throws or passes
\* silently, depending on the Mongoose release.
AddCommentCount(s) ==
    /\ req[s].pc = "count"
    /\ req[s].route = "posts.addComment"
    /\ IF Absent(PostId)
       THEN /\ Post' = Post
            /\ \/ req' = [req EXCEPT ![s] = Respond(@, 500)]
               \/ req' = [req EXCEPT ![s].pc = "notify"]
       ELSE /\ Post' = [Post EXCEPT !.commentCount = req[s].count + 1,
                                    !.votes = SavedScore(Post.votes, PreSave(req[s].doc))]
            /\ req' = [req EXCEPT ![s].pc = "notify"]
    /\ UNCHANGED <<Comment, karma, notifications, now, issued, comments, calls, deleted,
                 account, login, failures>>

\* Lines 1485-1513: the notification of the post author and the response.
AddCommentNotify(s) ==
    /\ req[s].pc = "notify"
    /\ req[s].route = "posts.addComment"
    /\ LET r == req[s]
           n == Notif(Post.author, "comment", r.actor, PostId, r.made)
       IN IF NotifiesReply(Post.author, r.actor)
          THEN IF Created(n)
               THEN /\ notifications' = Insert(n)
                    /\ req' = [req EXCEPT ![s] = Respond(Wrote(r, "notification"), 201)]
               ELSE /\ notifications' = notifications
                    /\ req' = [req EXCEPT ![s] = Respond(r, 500)]
          ELSE /\ notifications' = notifications
               /\ req' = [req EXCEPT ![s] = Respond(r, 201)]
    /\ UNCHANGED <<Post, Comment, karma, now, issued, comments, calls, deleted,
                 account, login, failures>>

----------------------------------------------------------------------------
\* The Comment collection: c1 and the documents the handlers created.

\* Every _id a comment request can name.
CommentIds == {CommentId} \cup {NewId[i] : i \in 1..Len(NewId)}

\* The position of a created comment in `comments`.
IndexOf(id) == CHOOSE i \in 1..Len(NewId) : NewId[i] = id

\* The _ids of the documents that are stored.
StoredComments ==
    ({CommentId} \cup {NewId[i] : i \in 1..Len(comments)}) \ deleted

\* The author, parentComment and replies of the document with _id id.
CommentDoc(id) ==
    IF id = CommentId
    THEN [author |-> Comment.author, parent |-> "none", replies |-> Comment.replies]
    ELSE comments[IndexOf(id)]

\* Comment.find({ parentComment: id })
Children(id) == {c \in StoredComments : CommentDoc(c).parent = id}

----------------------------------------------------------------------------
\* POST /api/posts/:postId/comments/:commentId/reply (routes/posts.js 1619-1685)

\* Lines 1621-1650: Comment.findById of the parent and the new reply document.
ReplyTo(s, u, content, parent) ==
    /\ Accepts(s)
    /\ issued < MaxRequests
    /\ issued' = issued + 1
    /\ LET found == Read([Accept("posts.reply", u, "other") EXCEPT
                             !.content = content, !.target = parent],
                         "content")
       IN req' = Enter(s, IF parent \notin StoredComments THEN Respond(found, 404)
                          ELSE [found EXCEPT !.pc = "comment"])
    /\ UNCHANGED <<Post, Comment, karma, notifications, now, comments, calls, deleted,
                 account, login, failures>>

\* A reply to comment c1.
Reply(s, u, content) == ReplyTo(s, u, content, CommentId)

\* Line 1652: reply.save(); a reply without content fails validation (500).
ReplySave(s) ==
    /\ req[s].pc = "comment"
    /\ req[s].route = "posts.reply"
    /\ Len(comments) < Len(NewId)
    /\ IF req[s].content = ""
       THEN /\ comments' = comments
            /\ req' = [req EXCEPT ![s] = Respond(@, 500)]
       ELSE /\ comments' = Append(comments, [author |-> req[s].actor,
                                             parent |-> req[s].target,
                                             replies |-> <<>>])
            /\ req' = [req EXCEPT ![s] = [Wrote(@, "content") EXCEPT
                                             !.pc = "parent",
                                             !.made = NewId[Len(comments) + 1]]]
    /\ UNCHANGED <<Post, Comment, karma, notifications, now, issued, calls, deleted,
                 account, login, failures>>

\* Lines 1654-1659: parentComment.replies.push(reply._id) and
\* parentComment.save(), an atomic $push that increments __v.
ReplyParent(s) ==
    /\ req[s].pc = "parent"
    /\ req[s].route = "posts.reply"
    /\ LET parent == req[s].target
       IN IF parent \notin StoredComments
          THEN /\ UNCHANGED <<Comment, comments>>
               /\ req' = [req EXCEPT ![s] = Respond(@, 500)]
          ELSE /\ IF parent = CommentId
                  THEN /\ Comment' = [Comment EXCEPT !.replies = Append(@, req[s].made),
                                                     !.version = @ + 1]
                       /\ comments' = comments
                  ELSE /\ comments' = [comments EXCEPT
                                          ![IndexOf(parent)].replies = Append(@, req[s].made)]
                       /\ Comment' = Comment
               /\ req' = [req EXCEPT ![s].pc = "notify"]
    /\ UNCHANGED <<Post, karma, notifications, now, issued, calls, deleted,
                 account, login, failures>>

\* Lines 1661-1684: the notification of the parent's author and the response.
ReplyNotify(s) ==
    /\ req[s].pc = "notify"
    /\ req[s].route = "posts.reply"
    /\ LET r == req[s]
           author == CommentDoc(r.target).author
           n == Notif(author, "comment_reply", r.actor, PostId, r.made)
       IN IF NotifiesReply(author, r.actor)
          THEN IF Created(n)
               THEN /\ notifications' = Insert(n)
                    /\ req' = [req EXCEPT ![s] = Respond(Wrote(r, "notification"), 201)]
               ELSE /\ notifications' = notifications
                    /\ req' = [req EXCEPT ![s] = Respond(r, 500)]
          ELSE /\ notifications' = notifications
               /\ req' = [req EXCEPT ![s] = Respond(r, 201)]
    /\ UNCHANGED <<Post, Comment, karma, now, issued, comments, calls, deleted,
                 account, login, failures>>

----------------------------------------------------------------------------
\* DELETE /api/posts/:postId/comments/:commentId (routes/posts.js 1737-1795)

\* Math.max(0, n)
Max0(n) == IF n < 0 THEN 0 ELSE n

\* Lines 1739-1763: Comment.findById and the author check.
DeleteComment(s, u, id) ==
    /\ Accepts(s)
    /\ issued < MaxRequests
    /\ issued' = issued + 1
    /\ LET found == Read([Accept("posts.deleteComment", u, "other") EXCEPT !.target = id],
                         "content")
       IN req' = Enter(s, IF id \notin StoredComments THEN Respond(found, 404)
                          ELSE IF CommentDoc(id).author # u THEN Respond(found, 403)
                          ELSE [found EXCEPT !.pc = "count"])
    /\ UNCHANGED <<Post, Comment, karma, notifications, now, comments, calls, deleted,
                 account, login, failures>>

\* Line 1766: Comment.countDocuments({ parentComment: commentId }).
DeleteCommentCount(s) ==
    /\ req[s].pc = "count"
    /\ req[s].route = "posts.deleteComment"
    /\ req' = [req EXCEPT ![s].pc = "delete",
                          ![s].replies = Cardinality(Children(req[s].target))]
    /\ UNCHANGED <<Post, Comment, karma, notifications, now, issued, comments, calls, deleted,
                 account, login, failures>>

\* Line 1769: Comment.findByIdAndDelete(commentId).
DeleteCommentDoc(s) ==
    /\ req[s].pc = "delete"
    /\ req[s].route = "posts.deleteComment"
    /\ deleted' = deleted \cup {req[s].target}
    /\ req' = [req EXCEPT ![s] = [Wrote(@, "content") EXCEPT !.pc = "replies"]]
    /\ UNCHANGED <<Post, Comment, karma, notifications, now, issued, comments, calls,
                 account, login, failures>>

\* Line 1772: Comment.deleteMany({ parentComment: commentId }).
DeleteCommentReplies(s) ==
    /\ req[s].pc = "replies"
    /\ req[s].route = "posts.deleteComment"
    /\ deleted' = deleted \cup Children(req[s].target)
    /\ req' = [req EXCEPT ![s].pc = "post"]
    /\ UNCHANGED <<Post, Comment, karma, notifications, now, issued, comments, calls,
                 account, login, failures>>

\* Lines 1775-1787: Post.findById; without a post the request is answered.
DeleteCommentPost(s) ==
    /\ req[s].pc = "post"
    /\ req[s].route = "posts.deleteComment"
    /\ req' = [req EXCEPT ![s] =
                  IF Absent(PostId) THEN Respond(@, 200)
                  ELSE [@ EXCEPT !.pc = "postsave", !.count = Post.commentCount,
                                 !.doc = Load(Post, Post.votes)]]
    /\ UNCHANGED <<Post, Comment, karma, notifications, now, issued, comments, calls, deleted,
                 account, login, failures>>

\* Lines 1777-1787: commentCount = max(0, commentCount - (1 + repliesCount))
\* on the loaded document, then post.save(), whose pre('save') hook
\* recomputes votes from the loaded arrays, and the response.  When the post
\* is gone the update matches nothing: save() throws or passes silently,
\* depending on the Mongoose release.
DeleteCommentPostSave(s) ==
    /\ req[s].pc = "postsave"
    /\ req[s].route = "posts.deleteComment"
    /\ IF Absent(PostId)
       THEN /\ Post' = Post
            /\ \/ req' = [req EXCEPT ![s] = Respond(@, 500)]
               \/ req' = [req EXCEPT ![s] = Respond(@, 200)]
       ELSE /\ Post' = [Post EXCEPT
                           !.commentCount = Max0(req[s].count - (1 + req[s].replies)),
                           !.votes = SavedScore(Post.votes, PreSave(req[s].doc))]
            /\ req' = [req EXCEPT ![s] = Respond(@, 200)]
    /\ UNCHANGED <<Comment, karma, notifications, now, issued, comments, calls, deleted,
                 account, login, failures>>

\* Comments, replies to any comment and deletions of comments, one request
\* at a time.
TreeNext ==
    \/ \E u \in Users, content \in Contents : Quiet /\ AddComment(1, u, content)
    \/ AddCommentSave(1)
    \/ AddCommentCount(1)
    \/ AddCommentNotify(1)
    \/ \E u \in Users, content \in Contents, parent \in CommentIds :
          Quiet /\ ReplyTo(1, u, content, parent)
    \/ ReplySave(1)
    \/ ReplyParent(1)
    \/ ReplyNotify(1)
    \/ \E u \in Users, id \in CommentIds : Quiet /\ DeleteComment(1, u, id)
    \/ DeleteCommentCount(1)
    \/ DeleteCommentDoc(1)
    \/ DeleteCommentReplies(1)
    \/ DeleteCommentPost(1)
    \/ DeleteCommentPostSave(1)

TreeSpec == Init /\ [][TreeNext]_vars

----------------------------------------------------------------------------
\* Post votes that overlap the handlers that save the post for another reason.

\* Post p1 as two overlapping upvotes of U2 and U3 through routes/votes.js
\* leave it: each save pushes its voter and sets the score it computed from
\* its own copy; no karma and no notification is written.
AfterOverlappingUpvotes ==
    [author |-> "U1", upvotes |-> <<"U2", "U3">>, downvotes |-> <<>>, votes |-> 1,
     version |-> 2, commentCount |-> 1]

\* The server is observed from the start or after those two upvotes.
MixInit ==
    /\ Post \in {[author |-> "U1", upvotes |-> <<>>, downvotes |-> <<>>, votes |-> 0,
                  version |-> 0, commentCount |-> 1],
                 AfterOverlappingUpvotes}
    /\ Comment = [author |-> "U1", post |-> PostId, upvotes |-> <<>>, downvotes |-> <<>>,
                  voteCount |-> 0, version |-> 0, replies |-> <<>>]
    /\ karma = [u \in Users |-> 0]
    /\ notifications = EmptyBag
    /\ now = 0
    /\ req = [s \in Slots |-> Idle]
    /\ issued = 0
    /\ comments = <<>>
    /\ deleted = {}
    /\ calls = [c \in Callers |-> NoCall]
    /\ account = NewAccount
    /\ login = NoLogin
    /\ failures = <<>>

MixNext ==
    \/ \E s \in Slots, u \in Users, type \in VoteTypes : PostsVotePost(s, u, type)
    \/ \E s \in Slots : PostsVotePostSave(s)
    \/ \E s \in Slots : PostsVotePostAfter(s)
    \/ \E s \in Slots, viewer \in Viewers : GetPost(s, viewer)
    \/ \E s \in Slots : GetPostSave(s)
    \/ \E s \in Slots, u \in Users : AddComment(s, u, "text")
    \/ \E s \in Slots : AddCommentSave(s)
    \/ \E s \in Slots : AddCommentCount(s)
    \/ \E s \in Slots : AddCommentNotify(s)
    \/ \E s \in Slots, u \in Users : DeleteComment(s, u, CommentId)
    \/ \E s \in Slots : DeleteCommentCount(s)
    \/ \E s \in Slots : DeleteCommentDoc(s)
    \/ \E s \in Slots : DeleteCommentReplies(s)
    \/ \E s \in Slots : DeleteCommentPost(s)
    \/ \E s \in Slots : DeleteCommentPostSave(s)

MixSpec == MixInit /\ [][MixNext]_vars

----------------------------------------------------------------------------
\* The notification routes (routes/notifications.js).  Each handler sends one
\* query, which the database executes atomically.

\* The _id of a stored notification: the unique index admits one document
\* per key, and a key that was deleted can be inserted again later.
NotificationId(n) == <<KeyOf(n), n.createdAt>>

\* The ids a request can name: those of the stored documents and one that
\* names no document.
NotificationIds == {NotificationId(n) : n \in BagToSet(notifications)} \cup {<<>>}

\* A filter without the user condition.
OwnedByAnyone(n, u) == TRUE

\* The condition `user: req.user._id` of every filter.
Owned(n, u) == n.user = u

\* The collection without the documents of S.
Without(S) == [m \in BagToSet(notifications) \ S |-> notifications[m]]

\* The collection with isRead = true on the documents of S.
MarkedRead(S) ==
    LET read(m) == IF m \in S THEN [m EXCEPT !.isRead = TRUE] ELSE m
        docs == {read(m) : m \in BagToSet(notifications)}
        kept(x) == IF x \in BagToSet(notifications) /\ read(x) = x
                   THEN notifications[x] ELSE 0
        marked(x) == LET y == [x EXCEPT !.isRead = FALSE]
                     IN IF x.isRead /\ y \in S THEN notifications[y] ELSE 0
    IN [x \in docs |-> kept(x) + marked(x)]

\* PATCH /:id/read (lines 105-121): findOneAndUpdate({_id, user}, {isRead: true}).
MarkAsRead(s, u, id) ==
    /\ Accepts(s)
    /\ issued < MaxRequests
    /\ issued' = issued + 1
    /\ LET r == Read([Accept("notifications.read", u, "other") EXCEPT !.named = id],
                     "notification")
           found == {n \in BagToSet(notifications) : NotificationId(n) = id /\ Owned(n, u)}
       IN IF found = {}
          THEN /\ notifications' = notifications
               /\ req' = Enter(s, Respond(r, 404))
          ELSE /\ notifications' = MarkedRead(found)
               /\ req' = Enter(s, Respond(Wrote(r, "notification"), 200))
    /\ UNCHANGED <<Post, Comment, karma, now, comments, calls, deleted,
                 account, login, failures>>

\* POST /read-all (lines 124-135): updateMany({user, isRead: false}, {isRead: true}).
MarkAllAsRead(s, u) ==
    /\ Accepts(s)
    /\ issued < MaxRequests
    /\ issued' = issued + 1
    /\ LET r == Accept("notifications.readAll", u, "other")
           found == {n \in BagToSet(notifications) : Owned(n, u) /\ ~n.isRead}
       IN /\ notifications' = MarkedRead(found)
          /\ req' = Enter(s, Respond(Wrote(r, "notification"), 200))
    /\ UNCHANGED <<Post, Comment, karma, now, comments, calls, deleted,
                 account, login, failures>>

\* DELETE /:id (lines 138-153): findOneAndDelete({_id, user}).
DeleteNotification(s, u, id) ==
    /\ Accepts(s)
    /\ issued < MaxRequests
    /\ issued' = issued + 1
    /\ LET r == Read([Accept("notifications.delete", u, "other") EXCEPT !.named = id],
                     "notification")
           found == {n \in BagToSet(notifications) : NotificationId(n) = id /\ Owned(n, u)}
       IN IF found = {}
          THEN /\ notifications' = notifications
               /\ req' = Enter(s, Respond(r, 404))
          ELSE /\ notifications' = Without(found)
               /\ req' = Enter(s, Respond(Wrote(r, "notification"), 200))
    /\ UNCHANGED <<Post, Comment, karma, now, comments, calls, deleted,
                 account, login, failures>>

\* DELETE / (lines 156-163): deleteMany({user}).
ClearNotifications(s, u) ==
    /\ Accepts(s)
    /\ issued < MaxRequests
    /\ issued' = issued + 1
    /\ LET r == Accept("notifications.clear", u, "other")
           found == {n \in BagToSet(notifications) : Owned(n, u)}
       IN /\ notifications' = Without(found)
          /\ req' = Enter(s, Respond(Wrote(r, "notification"), 200))
    /\ UNCHANGED <<Post, Comment, karma, now, comments, calls, deleted,
                 account, login, failures>>

\* Replies and post votes, which notify the authors, and the notification
\* routes, one request at a time.
InboxNext ==
    \/ \E u \in Users, parent \in CommentIds : Quiet /\ ReplyTo(1, u, "text", parent)
    \/ ReplySave(1)
    \/ ReplyParent(1)
    \/ ReplyNotify(1)
    \/ \E u \in Users, type \in VoteTypes : Quiet /\ PostsVotePost(1, u, type)
    \/ PostsVotePostSave(1)
    \/ PostsVotePostAfter(1)
    \/ \E u \in Users, id \in NotificationIds : Quiet /\ MarkAsRead(1, u, id)
    \/ \E u \in Users : Quiet /\ MarkAllAsRead(1, u)
    \/ \E u \in Users, id \in NotificationIds : Quiet /\ DeleteNotification(1, u, id)
    \/ \E u \in Users : Quiet /\ ClearNotifications(1, u)

InboxSpec == Init /\ [][InboxNext]_vars

----------------------------------------------------------------------------
\* POST /api/auth/login (routes/auth.js 125-220) for the account of U1.  The
\* rate limiter in front of it (10 requests per 15 minutes and IP) does not
\* look at the account and is left out.

LoginFree == login.pc \in {"idle", "done"}

\* Lines 127-168: the parameter check, User.findOne and the isLocked check.
Login(password) ==
    /\ LoginFree
    /\ login.served < MaxLogins
    /\ LET r == [NoLogin EXCEPT !.password = password, !.served = login.served + 1,
                                !.user = account]
       IN login' = IF password = "" THEN [r EXCEPT !.pc = "done", !.status = 400,
                                                   !.user = NewAccount]
                   ELSE IF IsLocked(account) THEN [r EXCEPT !.pc = "done", !.status = 423]
                   ELSE [r EXCEPT !.pc = "compare"]
    /\ UNCHANGED <<Post, Comment, karma, notifications, now, req, issued, comments, deleted,
                   calls, account, failures>>

\* Lines 171-176 and 190: user.comparePassword, then incrementLoginAttempts
\* or resetLoginAttempts change the in-memory user up to their save().
LoginCompare ==
    /\ login.pc = "compare"
    /\ login' = IF login.password = "right"
                THEN [login EXCEPT !.compared = TRUE, !.pc = "reset",
                                   !.user = ResetLoginAttempts(@)]
                ELSE [login EXCEPT !.compared = TRUE, !.pc = "increment",
                                   !.user = IncrementLoginAttempts(@)]
    /\ UNCHANGED <<Post, Comment, karma, notifications, now, req, issued, comments, deleted,
                   calls, account, failures>>

\* User.js 90 and auth.js 178-188: save() of the changed paths and the
\* response, 423 when the user is locked now and 401 otherwise.
LoginIncrement ==
    /\ login.pc = "increment"
    /\ account' = [account EXCEPT
                      !.loginAttempts = login.user.loginAttempts,
                      !.lockUntil = IF login.user.lockUntil # account.lockUntil
                                    THEN login.user.lockUntil ELSE @]
    /\ failures' = Append(failures, now)
    /\ login' = [login EXCEPT !.pc = "done",
                              !.status = IF IsLocked(login.user) THEN 423 ELSE 401]
    /\ UNCHANGED <<Post, Comment, karma, notifications, now, req, issued, comments, deleted,
                   calls>>

\* User.js 97 and auth.js 193-212: save() and the token response.
LoginReset ==
    /\ login.pc = "reset"
    /\ account' = login.user
    /\ failures' = <<>>
    /\ login' = [login EXCEPT !.pc = "done", !.status = 200]
    /\ UNCHANGED <<Post, Comment, karma, notifications, now, req, issued, comments, deleted,
                   calls>>

----------------------------------------------------------------------------
\* NotificationService.createNotification, called directly.

\* Lines 7-21: the findOne for a notification of the last 24 hours, sent at
\* Date.now() = `at`; when one exists the call returns null.
FindRecent(user, type, sender, comment) ==
    LET r == [NoCall EXCEPT !.user = user, !.type = type, !.sender = sender,
                            !.comment = comment, !.at = now]
    IN IF Recent(Notif(user, type, sender, PostId, comment)) # {}
       THEN [r EXCEPT !.pc = "done", !.result = "null"]
       ELSE [r EXCEPT !.pc = "save"]

\* A direct call of createNotification for a vote on post p1 of U1.
CreateNotification(c, sender, type) ==
    /\ calls[c].pc \in {"idle", "done"}
    /\ issued < MaxCalls
    /\ issued' = issued + 1
    /\ calls' = [calls EXCEPT ![c] = FindRecent("U1", type, sender, "none")]
    /\ UNCHANGED <<Post, Comment, karma, notifications, now, req, comments, deleted,
                 account, login, failures>>

\* Lines 23-36: notification.save(), which the unique index can refuse (the
\* catch block returns null), then the populated document is returned.
CreateNotificationSave(c) ==
    /\ calls[c].pc = "save"
    /\ LET n == Notif(calls[c].user, calls[c].type, calls[c].sender, PostId, calls[c].comment)
       IN IF Duplicate(n)
          THEN /\ notifications' = notifications
               /\ calls' = [calls EXCEPT ![c].pc = "done", ![c].result = "null"]
          ELSE /\ notifications' = Insert(n)
               /\ calls' = [calls EXCEPT ![c].pc = "done", ![c].result = "populated"]
    /\ UNCHANGED <<Post, Comment, karma, now, req, issued, comments, deleted,
                 account, login, failures>>

\* createVoteNotification (lines 40-61): nothing is asked for when the voter
\* is the recipient.
CreateVoteNotification(c, voter, recipient, type) ==
    /\ calls[c].pc \in {"idle", "done"}
    /\ issued < MaxRequests
    /\ issued' = issued + 1
    /\ calls' = [calls EXCEPT ![c] =
                    IF voter = recipient
                    THEN [NoCall EXCEPT !.user = recipient, !.type = type, !.sender = voter,
                                        !.pc = "done", !.result = "null"]
                    ELSE FindRecent(recipient, type, voter, "none")]
    /\ UNCHANGED <<Post, Comment, karma, notifications, now, req, comments, deleted,
                 account, login, failures>>

\* createReplyNotification (lines 64-85): nothing is asked for when the
\* commenter is the recipient.
CreateReplyNotification(c, commenter, recipient) ==
    /\ calls[c].pc \in {"idle", "done"}
    /\ issued < MaxRequests
    /\ issued' = issued + 1
    /\ calls' = [calls EXCEPT ![c] =
                    IF commenter = recipient
                    THEN [NoCall EXCEPT !.user = recipient, !.type = "comment_reply",
                                        !.sender = commenter, !.comment = CommentId,
                                        !.pc = "done", !.result = "null"]
                    ELSE FindRecent(recipient, "comment_reply", commenter, CommentId)]
    /\ UNCHANGED <<Post, Comment, karma, notifications, now, req, comments, deleted,
                 account, login, failures>>

\* Time passes.
Tick ==
    /\ now < MaxTicks * HalfDay
    /\ now' = now + HalfDay
    /\ UNCHANGED <<Post, Comment, karma, notifications, req, issued, calls, comments, deleted,
                 account, login, failures>>

NotifNext ==
    \/ \E c \in Callers, sender \in Senders, type \in VoteTypes :
          CreateNotification(c, sender, type)
    \/ \E c \in Callers : CreateNotificationSave(c)
    \/ Tick

NotifSpec == Init /\ [][NotifNext]_vars

\* Logins one after the other, with time passing between them.
LoginNext ==
    \/ \E password \in Passwords : Login(password)
    \/ LoginCompare
    \/ LoginIncrement
    \/ LoginReset
    \/ LoginFree /\ Tick

LoginSpec == Init /\ [][LoginNext]_vars

\* Every handler that stores a notification, one request or call at a time:
\* the votes of routes/posts.js with a valid direction, comments, replies and
\* the notification helpers of the service (routes/votes.js stores none).
NoCalls == \A c \in Callers : calls[c].pc # "save"

TalkNext ==
    \/ \E u \in Users, type \in VoteTypes : Quiet /\ NoCalls /\ PostsVotePost(1, u, type)
    \/ PostsVotePostSave(1)
    \/ PostsVotePostAfter(1)
    \/ \E u \in Users, type \in VoteTypes : Quiet /\ NoCalls /\ PostsVoteComment(1, u, type)
    \/ PostsVoteCommentSave(1)
    \/ \E u \in Users, content \in Contents : Quiet /\ NoCalls /\ AddComment(1, u, content)
    \/ AddCommentSave(1)
    \/ AddCommentCount(1)
    \/ AddCommentNotify(1)
    \/ \E u \in Users, content \in Contents : Quiet /\ NoCalls /\ Reply(1, u, content)
    \/ ReplySave(1)
    \/ ReplyParent(1)
    \/ ReplyNotify(1)
    \/ \E voter, recipient \in Users, type \in VoteTypes :
          Quiet /\ CreateVoteNotification(1, voter, recipient, type)
    \/ \E commenter, recipient \in Users :
          Quiet /\ CreateReplyNotification(1, commenter, recipient)
    \/ CreateNotificationSave(1)

TalkSpec == Init /\ [][TalkNext]_vars

----------------------------------------------------------------------------
\* Vocabulary of the properties.

PostRoutes == {"posts.post", "votes.post"}
Routes == PostRoutes \cup {"votes.comment", "posts.comment"}

\* Slot s holds, after the step, the request of actor a with token d on route rt.
Holds(s, rt, a, d) ==
    req'[s].route = rt /\ req'[s].actor = a /\ req'[s].type = d

\* The vote state of the content item a route acts on.
VotesOf(route) ==
    IF route \in PostRoutes
    THEN [up |-> Post.upvotes, down |-> Post.downvotes, score |-> Post.votes]
    ELSE [up |-> Comment.upvotes, down |-> Comment.downvotes, score |-> Comment.voteCount]

AuthorOf(route) == IF route \in PostRoutes THEN Post.author ELSE Comment.author

ReadRoutes == {"posts.list", "posts.get"}

\* How often user u is counted in array arr.
Occurrences(arr, u) == Cardinality({i \in 1..Len(arr) : arr[i] = u})

\* What a response says about vote state v and actor a when it is accurate.
Reported(v, a) ==
    [success |-> TRUE,
     votes |-> v.score, voteCount |-> v.score,
     upvoteCount |-> Len(v.up), upvotes |-> Len(v.up),
     downvoteCount |-> Len(v.down), downvotes |-> Len(v.down),
     hasUpvoted |-> Has(v.up, a),
     hasDownvoted |-> Has(v.down, a),
     userVote |-> IF Has(v.up, a) /\ ~Has(v.down, a) THEN "upvote"
                  ELSE IF Has(v.down, a) /\ ~Has(v.up, a) THEN "downvote"
                  ELSE "null"]

\* The stored version key of the content item a vote route acts on.
VersionOf(route) == IF route \in PostRoutes THEN Post.version ELSE Comment.version

\* The _id of the content item a vote route acts on.
IdOf(route) == IF route \in PostRoutes THEN PostId ELSE CommentId

Fresh == [up |-> <<>>, down |-> <<>>, score |-> 0]

\* Only actor a has voted, in direction d.
Voted(a, d) ==
    IF d = "upvote" THEN [up |-> <<a>>, down |-> <<>>, score |-> 1]
                    ELSE [up |-> <<>>, down |-> <<a>>, score |-> -1]

\* The step that decides the request of slot s: it is rejected on arrival,
\* or its save() is executed.
Rejects(s) == Accepts(s) /\ issued' = issued + 1 /\ req'[s].pc = "done"
Saves(s) == req[s].pc = "save" /\ req'[s].pc # "save"
Decides(s) == Rejects(s) \/ Saves(s)

\* The number of stored notifications among the documents of S.
Stored(S) == BagCardinality([m \in S \cap BagToSet(notifications) |-> notifications[m]])

\* The stored notifications with the key of n created less than 24 hours
\* before or after n.
SameDay(n) ==
    {m \in SameKey(n) : m.createdAt - n.createdAt < Day /\ n.createdAt - m.createdAt < Day}

\* The stored notifications with the key of n that are less than 24 hours old.
WithinLastDay(n) == {m \in SameKey(n) : now - m.createdAt < Day}

\* The notification that caller c asks for.
Asked(r) == Notif(r.user, r.type, r.sender, PostId, r.comment)

\* +1 for an upvote held, -1 for a downvote held, 0 for none.
Sign(up, down) == IF up THEN 1 ELSE IF down THEN -1 ELSE 0

----------------------------------------------------------------------------
\* C1: no user id is in both the upvotes and the downvotes of a post or of a
\* comment, in any reachable state, also when vote requests interleave.
NoUserInBothSets ==
    \A u \in Users :
        /\ ~(Has(Post.upvotes, u) /\ Has(Post.downvotes, u))
        /\ ~(Has(Comment.upvotes, u) /\ Has(Comment.downvotes, u))

\* C2: the stored score of a post and of a comment equals |upvotes| - |downvotes|
\* of the stored sets in every state, also when vote requests overlap.
ScoreMatchesSets ==
    /\ Post.votes = Cardinality(Members(Post.upvotes)) - Cardinality(Members(Post.downvotes))
    /\ Comment.voteCount =
          Cardinality(Members(Comment.upvotes)) - Cardinality(Members(Comment.downvotes))

\* C3: an upvote by U2 and a downvote by U3 that overlap on the same neutral
\* item both succeed and leave upvotes = {U2}, downvotes = {U3}, score = 0.
ConcurrentUpDownBothCounted ==
    \A s, t \in Slots :
        ( /\ issued = 2
          /\ s # t
          /\ req[s].pc = "done" /\ req[t].pc = "done"
          /\ req[s].actor = "U2" /\ req[s].type = "upvote"
          /\ req[t].actor = "U3" /\ req[t].type = "downvote"
          /\ (req[s].route \in PostRoutes) = (req[t].route \in PostRoutes) )
        => /\ req[s].status = 200
           /\ req[t].status = 200
           /\ VotesOf(req[s].route) = [up |-> <<"U2">>, down |-> <<"U3">>, score |-> 0]

\* C4: the karma increment of a committed post vote equals the new sign of the
\* actor's vote minus the old one (so -2 for up->down, -1 for up->neutral).
KarmaFollowsContribution ==
    [][\A s \in Slots :
          (req[s].pc = "after" /\ req'[s].pc = "done")
          => karma'[Post.author] - karma[Post.author] =
                Sign(Has(Post.upvotes, req[s].actor), Has(Post.downvotes, req[s].actor))
                - Sign(req[s].hasUpvoted, req[s].hasDownvoted)]_vars

\* The vote transition table from state v to state w for actor a and
\* direction d, one row per prior state of the actor.
VoteTable(v, w, a, d) ==
    LET heldD == IF d = "upvote" THEN Has(v.up, a) ELSE Has(v.down, a)
        heldO == IF d = "upvote" THEN Has(v.down, a) ELSE Has(v.up, a)
        inD == IF d = "upvote" THEN Has(w.up, a) ELSE Has(w.down, a)
        inO == IF d = "upvote" THEN Has(w.down, a) ELSE Has(w.up, a)
    IN /\ (~heldD /\ ~heldO) => (inD /\ ~inO)
       /\ heldD => (~inD /\ (~heldO => ~inO))
       /\ (heldO /\ ~heldD) => (inD /\ ~inO)
       /\ \A x \in Users \ {a} :
             /\ Has(w.up, x) = Has(v.up, x)
             /\ Has(w.down, x) = Has(v.down, x)

\* C5: a post vote by a non-author with direction d is saved and follows the
\* table: neutral -> in d's set; holding d -> removed; holding the opposite
\* -> moved to d's set; the membership of every other user is unchanged.
PostVoteFollowsTable ==
    [][\A s \in Slots, rt \in PostRoutes, a \in Users, d \in VoteTypes :
          (Decides(s) /\ Holds(s, rt, a, d) /\ a # Post.author)
          => /\ Saves(s)
             /\ VoteTable(VotesOf(rt), VotesOf(rt)', a, d)]_vars

\* A post on which a non-author has switched from upvote to downvote.
PostSwitchSaved ==
    \E s \in Slots :
        /\ req[s].pc \in {"after", "done"}
        /\ req[s].route \in PostRoutes
        /\ req[s].type = "downvote"
        /\ req[s].hasUpvoted
        /\ req[s].actor # Post.author
        /\ Has(Post.downvotes, req[s].actor)
        /\ ~Has(Post.upvotes, req[s].actor)

\* C6: a comment vote by a non-author gives the actor the membership and the
\* item the score that the same request gives on a post, for every prior state.
CommentVoteMatchesPostVote ==
    [][\A s \in Slots, rt \in Routes \ PostRoutes, a \in Users, d \in VoteTypes :
          (Decides(s) /\ Holds(s, rt, a, d) /\ a # Comment.author)
          => LET onPost == PostsPostMutate(Load(Comment, Comment.voteCount), a, d)
             IN /\ Has(Comment'.upvotes, a) = Has(onPost.upvotes, a)
                /\ Has(Comment'.downvotes, a) = Has(onPost.downvotes, a)
                /\ Comment'.voteCount = onPost.score]_vars

\* C7: on fresh content the 1st vote of a non-author in direction d leaves only
\* the actor in d's set with score +1 / -1, and the identical 2nd vote leaves
\* the content fresh again (so that the 3rd reproduces the 1st).
RepeatedVoteToggles ==
    [][\A s \in Slots, rt \in Routes, a \in Users, d \in VoteTypes :
          (Decides(s) /\ Holds(s, rt, a, d) /\ a # AuthorOf(rt))
          => /\ VotesOf(rt) = Fresh => VotesOf(rt)' = Voted(a, d)
             /\ VotesOf(rt) = Voted(a, d) => VotesOf(rt)' = Fresh]_vars

\* C8: a downvote of a non-author who holds the only vote, an upvote, leaves
\* the actor in downvotes only with score -1, which is the state a downvote on
\* fresh content produces; the upvote on fresh content that precedes it leaves
\* the actor in upvotes only (or nothing, when the request failed).
SwitchLaw ==
    [][\A s \in Slots, rt \in Routes, a \in Users, d \in VoteTypes :
          (Decides(s) /\ Holds(s, rt, a, d) /\ a # AuthorOf(rt))
          => /\ (d = "upvote" /\ VotesOf(rt) = Fresh)
                   => VotesOf(rt)' \in {Voted(a, "upvote"), Fresh}
             /\ (d = "downvote" /\ VotesOf(rt) \in {Voted(a, "upvote"), Fresh})
                   => VotesOf(rt)' = Voted(a, "downvote")]_vars

\* An upvote followed by a downvote of the same actor has been saved.
SwitchToDownvoteSaved ==
    \E s \in Slots :
        /\ req[s].pc \in {"after", "done"}
        /\ req[s].type = "downvote"
        /\ req[s].hasUpvoted
        /\ req[s].actor # AuthorOf(req[s].route)
        /\ VotesOf(req[s].route) = Voted(req[s].actor, "downvote")

\* C9: a vote whose actor is the author of the content is rejected with an
\* error on every entry point and leaves upvotes, downvotes and score unchanged.
SelfVoteRejected ==
    [][\A s \in Slots, rt \in Routes, a \in Users, d \in Tokens :
          (Decides(s) /\ Holds(s, rt, a, d) /\ a = AuthorOf(rt))
          => /\ req'[s].pc = "done"
             /\ req'[s].status >= 400
             /\ VotesOf(rt)' = VotesOf(rt)]_vars

\* C10: a vote whose direction token is neither upvote nor downvote is rejected
\* with an error on every entry point and changes no content item.
InvalidDirectionRejected ==
    [][\A s \in Slots, rt \in Routes, a \in Users, d \in Tokens \ VoteTypes :
          (Decides(s) /\ Holds(s, rt, a, d))
          => /\ req'[s].pc = "done"
             /\ req'[s].status >= 400
             /\ Post' = Post
             /\ Comment' = Comment]_vars

\* C11: once post.save() of a post vote has committed, the rest of the
\* request (karma update, notification write) never turns the response into a
\* failure and never touches the committed sets and score: the caller gets 200.
CommittedVoteAnswersSuccess ==
    [][\A s \in Slots :
          (req[s].pc = "after" /\ req'[s].pc = "done")
          => /\ req'[s].status = 200
             /\ Post' = Post]_vars

\* C12: an actor who upvotes, retracts and upvotes again within 24 hours leaves
\* at most one stored upvote notification for that recipient, actor and content
\* in that window.
OneUpvoteNotificationPerDay ==
    \A n \in BagToSet(notifications) :
        n.type = "upvote" => Stored(SameDay(n)) <= 1

\* An upvote that adds the actor again after an earlier upvote of the same
\* actor was notified: the second Notification.create was refused.
UpvotedAgain ==
    \E s \in Slots :
        /\ req[s].pc = "done"
        /\ req[s].type = "upvote"
        /\ ~req[s].hasUpvoted
        /\ req[s].status = 500
        /\ \E n \in BagToSet(notifications) :
              /\ n.type = "upvote"
              /\ n.sender = req[s].actor
              /\ n.user = AuthorOf(req[s].route)

\* C13: createNotification inserts nothing and returns null while a stored
\* notification with the same (user, type, sender, post, comment) is less than
\* 24 hours old, and for any number of calls with one tuple, overlapping ones
\* included, at most one stored notification of that tuple falls into any
\* 24-hour window.
CreateNotificationDeduplicates ==
    /\ [](\A n \in BagToSet(notifications) : Stored(SameDay(n)) <= 1)
    /\ [][\A c \in Callers :
             (calls'[c] # calls[c] /\ WithinLastDay(Asked(calls'[c])) # {})
             => /\ notifications' = notifications
                /\ calls'[c].pc = "done"
                /\ calls'[c].result = "null"]_vars

\* Two overlapping calls with one tuple have ended: one stored the
\* notification, the other returned null.
OverlappingCallsDeduplicated ==
    \E c, e \in Callers :
        /\ c # e
        /\ calls[c].pc = "done" /\ calls[e].pc = "done"
        /\ calls[c].result = "populated" /\ calls[e].result = "null"
        /\ KeyOf(Asked(calls[c])) = KeyOf(Asked(calls[e]))
        /\ Stored(WithinLastDay(Asked(calls[c]))) = 1

\* C14: in every reachable state no stored notification of a vote, a comment
\* or a reply has its recipient as its sender.
NoSelfNotification ==
    \A n \in BagToSet(notifications) : n.user # n.sender

\* The author of comment c1 has replied to it or upvoted it with success
\* while notifications of other users' actions are stored.
AuthorActedOnOwnComment ==
    \E s \in Slots :
        /\ req[s].pc = "done"
        /\ req[s].route \in {"posts.reply", "posts.comment"}
        /\ req[s].actor = Comment.author
        /\ req[s].status \in {200, 201}
        /\ (req[s].route = "posts.comment" => req[s].type = "upvote")
        /\ notifications # EmptyBag

\* C15: a vote whose content is absent when it is looked up, or is deleted
\* between the lookup and the save, ends with an error and has mutated
\* nothing: no content is changed or restored, no karma is changed and the
\* request has stored no notification.
AbsentContentVoteHasNoEffect ==
    [][\A s \in Slots, rt \in Routes :
          (Decides(s) /\ req'[s].route = rt /\ Absent(IdOf(rt)))
          => /\ req'[s].pc = "done"
             /\ req'[s].status >= 400
             /\ Post' = Post
             /\ Comment' = Comment
             /\ deleted' = deleted
             /\ karma' = karma
             /\ notifications' = notifications
             /\ req'[s].writes = {}]_vars

\* C16: the userVote a read of a post reports to a viewer is 'upvote' exactly
\* when the viewer is in upvotes, 'downvote' exactly when the viewer is in
\* downvotes and null otherwise; without a viewer identity it is null.
UserVoteMatchesMembership ==
    [][\A s \in Slots, v \in Viewers :
          ( /\ req[s].pc # "done" /\ req'[s].pc = "done"
            /\ req'[s].route \in ReadRoutes
            /\ req'[s].actor = v
            /\ req'[s].status = 200 )
          => LET userVote == req'[s].body.userVote
             IN /\ (userVote = "upvote") = (v \in Users /\ Has(Post.upvotes, v))
                /\ (userVote = "downvote") = (v \in Users /\ Has(Post.downvotes, v))
                /\ userVote \in {"upvote", "downvote", "null"}
                /\ v \notin Users => userVote = "null"]_vars

\* C17: the response of a successful vote reports the score, the two set
\* cardinalities and the actor's own vote of the state the request has
\* committed: the score is |upvotes| - |downvotes| and hasUpvoted,
\* hasDownvoted and userVote agree with the actor's membership in the saved sets.
VoteResponseReportsCommittedState ==
    [][\A s \in Slots, rt \in Routes, a \in Users :
          ( /\ req[s].pc # "done" /\ req'[s].pc = "done"
            /\ req'[s].status = 200
            /\ req'[s].route = rt
            /\ req'[s].actor = a )
          => LET body == req'[s].body
                 committed == Reported(VotesOf(rt)', a)
             IN /\ \A f \in DOMAIN body : body[f] = committed[f]
                /\ committed.votes = committed.upvoteCount - committed.downvoteCount]_vars

\* A vote that switched the actor from upvote to downvote on a post has been
\* answered with the new score and userVote.
SwitchReported ==
    \E s \in Slots :
        /\ req[s].pc = "done"
        /\ req[s].route = "posts.post"
        /\ req[s].status = 200
        /\ req[s].hasUpvoted
        /\ req[s].body.userVote = "downvote"
        /\ req[s].body.votes = -1
        /\ req[s].body.downvoteCount = 1

\* C18: overlapping vote requests of one actor on one content item (such as a
\* double submit of the same upvote) leave the actor counted at most once: the
\* actor's id occurs at most once across upvotes and downvotes.
ActorCountedAtMostOnce ==
    \A u \in Users :
        /\ Occurrences(Post.upvotes, u) + Occurrences(Post.downvotes, u) <= 1
        /\ Occurrences(Comment.upvotes, u) + Occurrences(Comment.downvotes, u) <= 1

\* C19: a vote whose save() meets a concurrent write to the same content (the
\* stored version is no longer the loaded one) is not answered with an error
\* at once: it commits, or it is retried and only then fails with a transient
\* error; and when it is answered with success the vote is not dropped: the
\* stored set holds the actor where the handler put the actor.
ConflictingVoteRetried ==
    [][\A s \in Slots, rt \in Routes, a \in Users :
          ( /\ req[s].pc = "save" /\ req'[s] # req[s]
            /\ req[s].route = rt
            /\ req[s].actor = a
            /\ VersionOf(rt) # req[s].doc.version )
          => /\ ~(req'[s].pc = "done" /\ req'[s].status >= 500)
             /\ (req'[s].pc = "after" \/ req'[s].status = 200)
                   => /\ Has(req[s].doc.upvotes, a) => Has(VotesOf(rt)'.up, a)
                      /\ Has(req[s].doc.downvotes, a) => Has(VotesOf(rt)'.down, a)]_vars

NoDanglingCommentReference ==
    ( /\ Quiet
      /\ \E s \in Slots : req[s].route = "posts.deleteComment" /\ req[s].status = 200 )
    => \A c \in StoredComments :
          /\ CommentDoc(c).parent \in StoredComments \cup {"none"}
          /\ Members(CommentDoc(c).replies) \subseteq StoredComments

\* C22: a vote notification is created only by a request that adds the actor
\* to a vote set the actor was not in; a request that retracts a vote or
\* leaves the actor's membership unchanged creates no notification.
VoteNotificationOnlyOnAdd ==
    [][\A s \in Slots, rt \in Routes, a \in Users, d \in Tokens :
          ( /\ req'[s] # req[s]
            /\ Holds(s, rt, a, d)
            /\ notifications' # notifications )
          => /\ d \in VoteTypes
             /\ d = "upvote" => ~req'[s].hasUpvoted
             /\ d = "downvote" => ~req'[s].hasDownvoted]_vars

\* C23: every stored vote notification belongs to a committed vote: a vote
\* request whose save failed or that was rejected has left no notification in
\* the store.
NotificationFollowsCommit ==
    \A s \in Slots :
        (req[s].pc = "done" /\ req[s].route \in Routes /\ req[s].status # 200)
        => "notification" \notin req[s].writes

\* C24: with karma starting at 0 and no post deleted, after any sequence of
\* sequentially executed post votes the karma of each author equals the sum
\* of the scores of the posts that author wrote.
KarmaEqualsScoreSum ==
    Quiet => \A u \in Users :
                karma[u] = IF u = Post.author THEN Post.votes ELSE 0

\* The second initial state of MixSpec as the votes of Spec produce it: the
\* two upvotes are stored, nothing else has changed and no request is in flight.
OverlappingUpvotesStored ==
    /\ Post = AfterOverlappingUpvotes
    /\ Comment.version = 0
    /\ karma = [u \in Users |-> 0]
    /\ notifications = EmptyBag
    /\ comments = <<>>
    /\ deleted = {}
    /\ Quiet

\* C25: a save of a post made by a non-vote operation (the view of
\* handlePostResponse, the commentCount update of a comment add or delete)
\* that overlaps a vote on the post never overwrites what the vote committed:
\* the stored upvotes, downvotes and votes are those the vote left.
NonVoteSaveKeepsVote ==
    [][\A s \in Slots :
          ( /\ \/ req[s].route = "posts.get" /\ req[s].pc = "view"
               \/ req[s].route = "posts.addComment" /\ req[s].pc = "count"
               \/ req[s].route = "posts.deleteComment" /\ req[s].pc = "postsave"
            /\ req'[s] # req[s]
            /\ Post.version # req[s].doc.version )
          => /\ Post'.upvotes = Post.upvotes
             /\ Post'.downvotes = Post.downvotes
             /\ Post'.votes = Post.votes]_vars

\* C26: an add-comment or reply request that ends in an error response has
\* stored no comment and has not changed the post's commentCount (it has
\* written nothing), and every comment that was stored was reported to its
\* creator as created, also when the commenter is not the post author.
CommentErrorStoresNothing ==
    \A s \in Slots :
        (req[s].pc = "done" /\ req[s].route \in {"posts.addComment", "posts.reply"})
        => /\ req[s].status >= 400 => (req[s].made = "none" /\ req[s].writes = {})
           /\ req[s].made # "none" => req[s].status = 201

\* C27: after any sequence of add-comment, add-reply and delete-comment
\* operations the post's commentCount is never negative and equals the
\* number of stored comments, top-level and replies, of the post.
CommentCountMatchesStored ==
    Quiet => /\ Post.commentCount >= 0
             /\ Post.commentCount = Cardinality(StoredComments)

\* C28: the 24-hour window is rolling: when the only stored notification
\* with the same (user, type, sender, post, comment) is older than 24 hours
\* when createNotification looks for it, the call stores a new notification
\* and returns it.
WindowIsRolling ==
    [][\A c \in Callers :
          ( /\ calls[c].pc = "save" /\ calls'[c].pc = "done"
            /\ SameKey(Asked(calls[c])) # {}
            /\ \A m \in SameKey(Asked(calls[c])) : calls[c].at - m.createdAt > Day )
          => /\ calls'[c].result = "populated"
             /\ notifications' = Insert(Asked(calls[c]))]_vars

\* The notification routes and the stored documents with a given _id.
NotificationRoutes ==
    {"notifications.read", "notifications.readAll", "notifications.delete",
     "notifications.clear"}

Named(id) == {n \in BagToSet(notifications) : NotificationId(n) = id}

\* C29: mark-as-read, delete-one, read-all and clear-all invoked by user X
\* change or remove only notifications whose recipient is X: those addressed
\* to any other user are unchanged, and a request that names another user's
\* notification returns not-found.
NotificationOpsTouchOnlyOwn ==
    [][\A s \in Slots, x \in Users :
          ( /\ req'[s] # req[s]
            /\ req'[s].route \in NotificationRoutes
            /\ req'[s].actor = x )
          => /\ \A n \in BagToSet(notifications) :
                   n.user # x => /\ n \in BagToSet(notifications')
                                 /\ notifications'[n] = notifications[n]
             /\ \A n \in BagToSet(notifications') :
                   n.user # x => n \in BagToSet(notifications)
             /\ (\E n \in Named(req'[s].named) : n.user # x)
                   => /\ req'[s].status = 404
                      /\ notifications' = notifications]_vars

\* A user has marked all of their notifications as read with success: one
\* of them is stored as read, and a notification addressed to another user is
\* still stored unread.
ReadAllBesideOthers ==
    \E s \in Slots :
        /\ req[s].pc = "done"
        /\ req[s].route = "notifications.readAll"
        /\ req[s].status = 200
        /\ \E n \in BagToSet(notifications) : n.user = req[s].actor /\ n.isRead
        /\ \E n \in BagToSet(notifications) : n.user # req[s].actor /\ ~n.isRead

\* The failed attempts of history h made at or after time t.
FailedSince(h, t) == Cardinality({i \in 1..Len(h) : h[i] >= t})

\* C30: an account becomes locked only after 5 failed attempts counted since
\* the last successful login or since the previous lock expired; while it is
\* locked every login is rejected without a password check and without a
\* change of loginAttempts; a successful login sets loginAttempts to 0 and
\* clears lockUntil.
LockAfterFiveFailures ==
    [][/\ (~IsLocked(account) /\ IsLocked(account)')
          => FailedSince(failures', IF account.lockUntil = Unset THEN 0
                                    ELSE account.lockUntil) >= AttemptLimit
       /\ (IsLocked(account) /\ login' # login)
          => /\ login'.pc = "done"
             /\ login'.status >= 400
             /\ ~login'.compared
             /\ account' = account
       /\ (login' # login /\ login'.status = 200)
          => account' = NewAccount]_vars

====
